---- MODULE Spec2Model ----
(***************************************************************************)
(* Model of diesel-sort-struct-fields (src/src/lib.rs): the two attribute  *)
(* macros sort_fields and sort_columns.  An invocation is an attribute     *)
(* argument plus an item; the macro either emits a declaration or an       *)
(* error.  Identifiers are sequences of character codes and are compared   *)
(* as text; every other token carries an opaque content code.              *)
(***************************************************************************)
EXTENDS Integers, Sequences, FiniteSets, TLC

VARIABLES call, pc, cursor, use_statements, attributes, name, id_columns,
          columns, result, prev

vars == <<call, pc, cursor, use_statements, attributes, name, id_columns,
          columns, result, prev>>

(* ---------------------------------------------------------------------- *)
(* Bounds                                                                 *)
(* ---------------------------------------------------------------------- *)
\* longest field list / column list of a declaration
MaxItems == 3

(* ---------------------------------------------------------------------- *)
(* Tokens                                                                 *)
(* ---------------------------------------------------------------------- *)
Tok(k, v) == [k |-> k, v |-> v]
P(k) == Tok(k, <<>>)

\* identifiers as text, a = 1 .. z = 26
id == <<9, 4>>
nm == <<14, 1, 13, 5>>
users == <<21, 19, 5, 18, 19>>
table == <<20, 1, 2, 12, 5>>
quote == <<17, 21, 15, 20, 5>>
Text == <<20, 5, 24, 20>>
Nullable == <<14, 21, 12, 12>>

Min(a, b) == IF a < b THEN a ELSE b

\* Ord for Ident: the order of the identifiers' text (String::cmp)
IdentLess(a, b) ==
    \/ \E i \in 1..Min(Len(a), Len(b)) :
          /\ a[i] < b[i]
          /\ \A j \in 1..(i - 1) : a[j] = b[j]
    \/ /\ Len(a) < Len(b)
       /\ \A j \in 1..Len(a) : a[j] = b[j]

IdentLe(a, b) == a = b \/ IdentLess(a, b)

\* kind of the token at position p, "eof" past the end
K(ts, p) == IF p >= 1 /\ p <= Len(ts) THEN ts[p].k ELSE "eof"

RECURSIVE Flatten(_)
Flatten(ss) == IF ss = <<>> THEN <<>> ELSE Head(ss) \o Flatten(Tail(ss))

(* ---------------------------------------------------------------------- *)
(* Results                                                                *)
(* ---------------------------------------------------------------------- *)
NoOut == [kind |-> "none"]
Pending == [status |-> "none", err |-> "", out |-> NoOut]
Ok(o) == [status |-> "ok", err |-> "", out |-> o]
Err(e) == [status |-> "err", err |-> e, out |-> NoOut]

(* ---------------------------------------------------------------------- *)
(* sort_punctuated: sort_unstable_by_key leaves the order of items with   *)
(* equal keys open, so the result is any arrangement of the items that is *)
(* ascending by key.                                                      *)
(* ---------------------------------------------------------------------- *)
Perms(n) == { f \in [1..n -> 1..n] : \A i, j \in 1..n : f[i] = f[j] => i = j }

Arrangements(items) ==
    { [i \in 1..Len(items) |-> items[f[i]]] : f \in Perms(Len(items)) }

\* sort_punctuated without the sort
sort_punctuated_unsorted(items, keys) == { items }

\* sort_punctuated with the comparison reversed
sort_punctuated_descending(items, keys) ==
    { [i \in 1..Len(items) |-> items[f[i]]] :
        f \in { g \in Perms(Len(items)) :
                  \A i \in 1..(Len(items) - 1) : IdentLe(keys[g[i + 1]], keys[g[i]]) } }

\* sort_punctuated looking the items up by key: of the items that share a
\* key only the first is found
sort_punctuated_by_lookup(items, keys) ==
    LET first(k) == CHOOSE i \in 1..Len(items) :
                        keys[i] = k /\ \A j \in 1..(i - 1) : keys[j] # k
    IN { [i \in 1..Len(items) |-> items[first(keys[f[i]])]] :
           f \in { g \in Perms(Len(items)) :
                     \A i \in 1..(Len(items) - 1) : IdentLe(keys[g[i]], keys[g[i + 1]]) } }

sort_punctuated(items, keys) ==
    { [i \in 1..Len(items) |-> items[f[i]]] :
        f \in { g \in Perms(Len(items)) :
                  \A i \in 1..(Len(items) - 1) : IdentLe(keys[g[i]], keys[g[i + 1]]) } }

(* ---------------------------------------------------------------------- *)
(* Parsers of the table body.  A parser reads from a position and leaves  *)
(* the cursor where it stopped, also when it fails.                       *)
(* ---------------------------------------------------------------------- *)
RECURSIVE Attribute_parse_outer(_, _)
Attribute_parse_outer(ts, p) ==
    IF K(ts, p) = "attr"
    THEN LET r == Attribute_parse_outer(ts, p + 1)
         IN [pos |-> r.pos, val |-> <<ts[p]>> \o r.val]
    ELSE [pos |-> p, val |-> <<>>]

\* syn::ItemUse: outer attributes, use tree, ;
ItemUse_parse(ts, p) ==
    LET a == Attribute_parse_outer(ts, p)
    IN IF K(ts, a.pos) # "use"
       THEN [ok |-> FALSE, pos |-> a.pos, val |-> <<>>]
       ELSE IF K(ts, a.pos + 1) # ";"
            THEN [ok |-> FALSE, pos |-> a.pos + 1, val |-> <<>>]
            ELSE [ok |-> TRUE, pos |-> a.pos + 2,
                  val |-> [attrs |-> a.val, tree |-> ts[a.pos].v]]

ItemUse_to_tokens(u) == u.attrs \o <<Tok("use", u.tree), P(";")>>

\* Punctuated<Ident, Token![,]>::parse_terminated inside the parentheses
RECURSIVE Idents_parse_terminated(_, _)
Idents_parse_terminated(ts, p) ==
    IF K(ts, p) = ")" THEN [ok |-> TRUE, pos |-> p, val |-> <<>>, trailing |-> FALSE]
    ELSE IF K(ts, p) # "ident" THEN [ok |-> FALSE, pos |-> p, val |-> <<>>, trailing |-> FALSE]
    ELSE IF K(ts, p + 1) = ")"
         THEN [ok |-> TRUE, pos |-> p + 1, val |-> <<ts[p].v>>, trailing |-> FALSE]
    ELSE IF K(ts, p + 1) # ","
         THEN [ok |-> FALSE, pos |-> p + 1, val |-> <<>>, trailing |-> FALSE]
    ELSE LET r == Idents_parse_terminated(ts, p + 2)
         IN [ok |-> r.ok, pos |-> r.pos,
             val |-> IF r.ok THEN <<ts[p].v>> \o r.val ELSE <<>>,
             trailing |-> r.ok /\ (r.val = <<>> \/ r.trailing)]

Bare(t) == [tag |-> "Bare", a |-> t, b |-> <<>>]
Wrapped(o, t) == [tag |-> "Wrapped", a |-> o, b |-> t]

\* ColumnType::to_tokens printing the constructor only
ColumnType_to_tokens_outer_only(ty) == <<Tok("ident", ty.a)>>

ColumnType_to_tokens(ty) ==
    IF ty.tag = "Bare"
    THEN <<Tok("ident", ty.a)>>
    ELSE <<Tok("ident", ty.a), P("<"), Tok("ident", ty.b), P(">")>>

ColumnDsl_parse(ts, p) ==
    LET a == Attribute_parse_outer(ts, p)
        q == a.pos
        fail(at) == [ok |-> FALSE, pos |-> at, val |-> <<>>]
    IN IF K(ts, q) # "ident" THEN fail(q)
       ELSE IF K(ts, q + 1) # "-" THEN fail(q + 1)
       ELSE IF K(ts, q + 2) # ">" THEN fail(q + 2)
       ELSE IF K(ts, q + 3) # "ident" THEN fail(q + 3)
       ELSE IF K(ts, q + 4) = "<"
            THEN IF K(ts, q + 5) # "ident" THEN fail(q + 5)
                 ELSE IF K(ts, q + 6) # ">" THEN fail(q + 6)
                 ELSE [ok |-> TRUE, pos |-> q + 7,
                       val |-> [name |-> ts[q].v,
                                ty |-> Wrapped(ts[q + 3].v, ts[q + 5].v),
                                attributes |-> a.val]]
            ELSE [ok |-> TRUE, pos |-> q + 4,
                  val |-> [name |-> ts[q].v,
                           ty |-> Bare(ts[q + 3].v),
                           attributes |-> a.val]]

ColumnDsl_to_tokens(c) ==
    c.attributes \o <<Tok("ident", c.name), P("-"), P(">")>>
        \o ColumnType_to_tokens(c.ty) \o <<P(",")>>

\* Punctuated<ColumnDsl, Token![,]>::parse_terminated inside the braces
RECURSIVE Columns_parse_terminated(_, _)
Columns_parse_terminated(ts, p) ==
    IF K(ts, p) = "}" THEN [ok |-> TRUE, pos |-> p, val |-> <<>>]
    ELSE LET c == ColumnDsl_parse(ts, p)
         IN IF ~c.ok THEN [ok |-> FALSE, pos |-> c.pos, val |-> <<>>]
            ELSE IF K(ts, c.pos) = "}"
                 THEN [ok |-> TRUE, pos |-> c.pos, val |-> <<c.val>>]
            ELSE IF K(ts, c.pos) # ","
                 THEN [ok |-> FALSE, pos |-> c.pos, val |-> <<>>]
            ELSE LET r == Columns_parse_terminated(ts, c.pos + 1)
                 IN [ok |-> r.ok, pos |-> r.pos,
                     val |-> IF r.ok THEN <<c.val>> \o r.val ELSE <<>>]

(* ---------------------------------------------------------------------- *)
(* Declarations as written by the user.  A table declaration is written   *)
(* as tokens (Table_tokens) and read back by the parsers above; a struct  *)
(* reaches the macro as the DeriveInput syn parsed.                       *)
(* ---------------------------------------------------------------------- *)
Attr(n) == Tok("attr", <<n>>)
Ident(n) == Tok("ident", n)

\* id, ids, name: one name is a prefix of another
ItemNames == {id, id \o <<19>>, nm}

\* a column as written: zero or more attributes, name -> Type or Outer<Inner>
ColumnsWritten ==
    { [name |-> n, ty |-> Bare(Text), attributes |-> <<>>] : n \in ItemNames }
    \cup { [name |-> n, ty |-> Wrapped(Nullable, Text),
            attributes |-> <<Attr(1), Attr(3)>>] : n \in ItemNames }

\* a field of a struct: syn::Field (attrs, ident, ty)
FieldsWritten ==
    { [ident |-> n, ty |-> <<4>>, attrs |-> <<>>] : n \in ItemNames }
    \cup { [ident |-> n, ty |-> <<5>>, attrs |-> <<Attr(1), Attr(3)>>] : n \in ItemNames }

SeqsUpTo(S, n) == UNION { [1..k -> S] : k \in 0..n }

UseLists == { <<>>,
              << [attrs |-> <<>>, tree |-> <<2>>],
                 [attrs |-> <<Attr(4)>>, tree |-> <<1>>] >> }
TableAttrLists == { <<>>, <<Attr(2), Attr(1)>> }
NoIds == [some |-> FALSE, idents |-> <<>>, trailing |-> FALSE]
SomeIds(s) == [some |-> TRUE, idents |-> s, trailing |-> FALSE]
IdLists == { NoIds, SomeIds(<<>>), SomeIds(<<nm, id>>) }

Flaws == {"no_semicolon", "no_name", "no_braces", "nested_type", "no_arrow",
          "trailing_tokens"}

TableDecl(u, a, n, k, c, f) ==
    [uses |-> u, attrs |-> a, name |-> n, ids |-> k, cols |-> c, flaw |-> f]

\* what stands around the columns: use statements, table attributes, id columns
TableFrames ==
    { <<u, a, k>> \in UseLists \X TableAttrLists \X IdLists :
        \/ u = <<>> /\ a = <<>> /\ k = NoIds
        \/ u # <<>> /\ a = <<>> /\ k = SomeIds(<<nm, id>>)
        \/ u = <<>> /\ a # <<>> /\ k = SomeIds(<<nm, id>>)
        \/ u # <<>> /\ a # <<>> /\ k = SomeIds(<<>>) }

\* the column lists: every list of the columns above, and the lists of
\* pairwise distinct names over one more name
ColumnLists ==
    SeqsUpTo(ColumnsWritten, MaxItems)
    \cup { c \in SeqsUpTo({ [name |-> n, ty |-> Bare(Text), attributes |-> <<>>] :
                              n \in ItemNames \cup {users} }, MaxItems) :
             \A i, j \in 1..Len(c) : c[i].name = c[j].name => i = j }

TableDecls ==
    { TableDecl(f[1], f[2], users, f[3], c, "none") :
        f \in TableFrames, c \in ColumnLists }
    \cup { TableDecl(<<[attrs |-> <<>>, tree |-> <<2>>]>>, <<>>, users, NoIds,
                     <<[name |-> nm, ty |-> Bare(Text), attributes |-> <<>>],
                       [name |-> id, ty |-> Wrapped(Nullable, Text), attributes |-> <<>>]>>,
                     f) : f \in Flaws }

RECURSIVE Punctuate(_)
Punctuate(idents) ==
    IF idents = <<>> THEN <<>>
    ELSE IF Len(idents) = 1 THEN <<Ident(idents[1])>>
    ELSE <<Ident(idents[1]), P(",")>> \o Punctuate(Tail(idents))

Ids_written(k) ==
    IF k.some
    THEN <<P("(")>> \o Punctuate(k.idents)
            \o (IF k.trailing THEN <<P(",")>> ELSE <<>>) \o <<P(")")>>
    ELSE <<>>

\* a use statement, a type and a column as they are written in the source
Use_written(u) == u.attrs \o <<Tok("use", u.tree), P(";")>>

Type_written(ty) ==
    IF ty.tag = "Wrapped"
    THEN <<Ident(ty.a), P("<"), Ident(ty.b), P(">")>>
    ELSE <<Ident(ty.a)>>

Column_written(c) ==
    c.attributes \o <<Ident(c.name), P("-"), P(">")>> \o Type_written(c.ty) \o <<P(",")>>

\* the token stream between the braces of table! { ... }
Table_tokens(d) ==
    LET useToks == Flatten([i \in 1..Len(d.uses) |->
                       IF d.flaw = "no_semicolon"
                       THEN d.uses[i].attrs \o <<Tok("use", d.uses[i].tree)>>
                       ELSE Use_written(d.uses[i])])
        colToks(c) ==
            IF d.flaw = "nested_type" /\ c.ty.tag = "Wrapped"
            THEN c.attributes \o <<Ident(c.name), P("-"), P(">"), Ident(c.ty.a), P("<"),
                                   Ident(c.ty.a), P("<"), Ident(c.ty.b), P(">"), P(">"), P(",")>>
            ELSE IF d.flaw = "no_arrow"
            THEN c.attributes \o <<Ident(c.name)>> \o Type_written(c.ty) \o <<P(",")>>
            ELSE Column_written(c)
        body == <<P("{")>> \o Flatten([i \in 1..Len(d.cols) |-> colToks(d.cols[i])])
                   \o <<P("}")>>
    IN useToks \o d.attrs
         \o (IF d.flaw = "no_name" THEN <<>> ELSE <<Ident(d.name)>>)
         \o Ids_written(d.ids)
         \o (IF d.flaw = "no_braces" THEN <<>> ELSE body)
         \o (IF d.flaw = "trailing_tokens" THEN <<Ident(nm)>> ELSE <<>>)

NoGenerics == [params |-> <<>>, where_clause |-> <<>>]
GenericsWritten ==
    { NoGenerics,
      [params |-> <<Tok("param", <<1>>)>>, where_clause |-> <<>>],
      [params |-> <<Tok("param", <<2>>)>>, where_clause |-> <<Tok("where", <<1>>)>>] }

NoDecl == TableDecl(<<>>, <<>>, <<>>, NoIds, <<>>, "none")

Item(kind, path, decl, attrs, vis, ident, generics, fields, named) ==
    [kind |-> kind, path |-> path, decl |-> decl,
     attrs |-> attrs, vis |-> vis, ident |-> ident, generics |-> generics,
     fields |-> fields, named |-> named]

\* ast.tts: the tokens between the braces of the macro invocation
Tts(item) == Table_tokens(item.decl)

MacroItem(path, d) == Item("macro", path, d, <<>>, "", <<>>, NoGenerics, "none", <<>>)
FnItem == Item("fn", <<>>, NoDecl, <<>>, "", nm, NoGenerics, "none", <<>>)
DeriveItem(kind, attrs, vis, generics, fields, named) ==
    Item(kind, <<>>, NoDecl, attrs, vis, users, generics, fields, named)

StructAttrLists == { <<>>, <<Attr(5), Attr(1)>> }

TableItems == { MacroItem(table, d) : d \in TableDecls }

SampleTable ==
    TableDecl(<<>>, <<>>, users, SomeIds(<<nm, id>>),
              <<[name |-> nm, ty |-> Bare(Text), attributes |-> <<>>],
                [name |-> id, ty |-> Bare(Text), attributes |-> <<>>]>>, "none")

\* what stands around the fields: struct attributes, visibility, generics
StructFrames ==
    { <<a, v, g>> \in StructAttrLists \X {"", "pub"} \X GenericsWritten :
        \/ a = <<>> /\ v = "" /\ g = NoGenerics
        \/ a # <<>> /\ v = "pub" /\ g = NoGenerics
        \/ a = <<>> /\ v = "pub" /\ g.params # <<>> /\ g.where_clause = <<>>
        \/ a # <<>> /\ v = "" /\ g.where_clause # <<>> }

\* the field lists: every list of the fields above, and the lists of
\* pairwise distinct names over one more name
FieldLists ==
    SeqsUpTo(FieldsWritten, MaxItems)
    \cup { c \in SeqsUpTo({ [ident |-> n, ty |-> <<4>>, attrs |-> <<>>] :
                              n \in ItemNames \cup {users} }, MaxItems) :
             \A i, j \in 1..Len(c) : c[i].ident = c[j].ident => i = j }

NamedStructs ==
    { DeriveItem("struct", f[1], f[2], f[3], "named", n) :
        f \in StructFrames, n \in FieldLists }

\* tuple fields have no ident (None)
TupleFields == { [ident |-> <<>>, ty |-> <<4>>, attrs |-> <<>>] }

OtherDerives ==
    { DeriveItem("struct", <<>>, v, g, "unnamed", f) :
        v \in {"", "pub"}, g \in GenericsWritten, f \in SeqsUpTo(TupleFields, 2) }
    \cup { DeriveItem("struct", a, "", g, "unit", <<>>) :
             a \in StructAttrLists, g \in GenericsWritten }
    \cup { DeriveItem(k, a, v, NoGenerics, "none", <<>>) :
             k \in {"enum", "union"}, a \in StructAttrLists, v \in {"", "pub"} }

SampleStruct ==
    DeriveItem("struct", <<>>, "pub", NoGenerics, "named",
               <<[ident |-> nm, ty |-> <<4>>, attrs |-> <<>>],
                 [ident |-> id, ty |-> <<5>>, attrs |-> <<>>]>>)

AttrArgs == { <<>>, <<Ident(nm)>> }

Call(m, a, i) == [macro |-> m, attr |-> a, item |-> i]

Calls ==
    { Call("sort_columns", a, i) :
        a \in AttrArgs,
        i \in TableItems \cup {FnItem, SampleStruct, MacroItem(quote, SampleTable)} }
    \cup { Call("sort_fields", a, i) :
        a \in AttrArgs,
        i \in NamedStructs \cup OtherDerives \cup {FnItem, MacroItem(table, SampleTable)} }

(* ---------------------------------------------------------------------- *)
(* Emitters                                                               *)
(* ---------------------------------------------------------------------- *)
\* the id columns run through sort_punctuated like the columns
IdColumns_to_tokens_sorted(k) ==
    IF k.some
    THEN <<P("(")>>
            \o Punctuate(CHOOSE s \in sort_punctuated(k.idents, k.idents) : TRUE)
            \o (IF k.trailing THEN <<P(",")>> ELSE <<>>) \o <<P(")")>>
    ELSE <<>>

\* quote! { ( #id_columns ) } or nothing
IdColumns_to_tokens(k) ==
    IF k.some
    THEN <<P("(")>> \o Punctuate(k.idents)
            \o (IF k.trailing THEN <<P(",")>> ELSE <<>>) \o <<P(")")>>
    ELSE <<>>

\* the declarations TableDsl::to_tokens can emit, one per outcome of the sort
TableDsl_to_tokens(t) ==
    { [kind |-> "table",
       uses |-> Flatten([i \in 1..Len(t.use_statements) |->
                           ItemUse_to_tokens(t.use_statements[i])]),
       attrs |-> t.attributes,
       name |-> t.name,
       ids |-> IdColumns_to_tokens(t.id_columns),
       cols |-> [i \in 1..Len(sorted) |-> ColumnDsl_to_tokens(sorted[i])]] :
      sorted \in sort_punctuated(t.columns,
                                 [i \in 1..Len(t.columns) |-> t.columns[i].name]) }

\* quote! { #generics }: the angle-bracketed parameters
Generics_to_tokens(g) == g.params

\* find_and_sort_struct_fields taking a unit struct for an empty field list
find_and_sort_struct_fields_unit_ok(ast) ==
    IF ast.kind = "struct"
    THEN IF ast.fields = "unnamed"
         THEN { Err("#[sort_fields] is not allowed on tuple structs, only structs with named fields") }
         ELSE { Ok(s) : s \in sort_punctuated(ast.named,
                                  [i \in 1..Len(ast.named) |-> ast.named[i].ident]) }
    ELSE IF ast.kind = "enum"
         THEN { Err("#[sort_fields] is not allowed on enums, only structs") }
         ELSE { Err("#[sort_fields] is not allowed on unions, only structs") }

find_and_sort_struct_fields(ast) ==
    IF ast.kind = "struct"
    THEN IF ast.fields = "named"
         THEN { Ok(s) : s \in sort_punctuated(ast.named,
                                  [i \in 1..Len(ast.named) |-> ast.named[i].ident]) }
         ELSE IF ast.fields = "unnamed"
              THEN { Err("#[sort_fields] is not allowed on tuple structs, only structs with named fields") }
              ELSE { Err("#[sort_fields] is not allowed on unit structs, only structs with named fields") }
    ELSE IF ast.kind = "enum"
         THEN { Err("#[sort_fields] is not allowed on enums, only structs") }
         ELSE { Err("#[sort_fields] is not allowed on unions, only structs") }

\* expand_sorted looking at the attribute argument only after the fields
expand_sorted_attr_checked_last(attr, ast) ==
    LET tokens(r) ==
            IF r.status # "ok" THEN r
            ELSE IF attr # <<>>
            THEN Err("#[sort_fields] doesn't support any attributes")
            ELSE Ok([kind |-> "struct",
                     attrs |-> ast.attrs,
                     vis |-> ast.vis,
                     ident |-> ast.ident,
                     generics |-> Generics_to_tokens(ast.generics),
                     fields |-> r.out])
    IN { tokens(r) : r \in find_and_sort_struct_fields(ast) }

expand_sorted(attr, ast) ==
    IF attr # <<>>
    THEN { Err("#[sort_fields] doesn't support any attributes") }
    ELSE LET tokens(r) ==
                 IF r.status = "ok"
                 THEN Ok([kind |-> "struct",
                          attrs |-> ast.attrs,
                          vis |-> ast.vis,
                          ident |-> ast.ident,
                          generics |-> Generics_to_tokens(ast.generics),
                          fields |-> r.out])
                 ELSE r
         IN { tokens(r) : r \in find_and_sort_struct_fields(ast) }

sort_columns_on_wrong_item_error ==
    Err("#[sort_columns] only works on the diesel::table! macro")

(* ---------------------------------------------------------------------- *)
(* The macros, step by step                                               *)
(* ---------------------------------------------------------------------- *)
Init ==
    /\ call \in Calls
    /\ pc = "start"
    /\ cursor = 1
    /\ use_statements = <<>>
    /\ attributes = <<>>
    /\ name = <<>>
    /\ id_columns = NoIds
    /\ columns = <<>>
    /\ result = Pending
    /\ prev = NoOut

Finish(r) ==
    /\ result' = r
    /\ pc' = "done"

\* sort_columns without the test of the macro's name
sort_columns_any_macro ==
    /\ pc = "start"
    /\ call.macro = "sort_columns"
    /\ IF call.attr # <<>>
       THEN Finish(Err("#[sort_columns] doesn't support any attributes"))
       ELSE IF call.item.kind # "macro"
       THEN Finish(sort_columns_on_wrong_item_error)
       ELSE /\ pc' = "use_statements"
            /\ UNCHANGED result
    /\ UNCHANGED <<call, cursor, use_statements, attributes, name, id_columns,
                   columns, prev>>

\* sort_columns up to the call of parse2::<TableDsl>
sort_columns ==
    /\ pc = "start"
    /\ call.macro = "sort_columns"
    /\ IF call.attr # <<>>
       THEN Finish(Err("#[sort_columns] doesn't support any attributes"))
       ELSE IF call.item.kind # "macro"
       THEN Finish(sort_columns_on_wrong_item_error)
       ELSE IF call.item.path # table
       THEN Finish(sort_columns_on_wrong_item_error)
       ELSE /\ pc' = "use_statements"
            /\ UNCHANGED result
    /\ UNCHANGED <<call, cursor, use_statements, attributes, name, id_columns,
                   columns, prev>>

\* TableDsl::parse, one turn of while let Some(stmt) = input.parse::<ItemUse>().ok()
TableDsl_parse_use ==
    /\ pc = "use_statements"
    /\ LET r == ItemUse_parse(Tts(call.item), cursor)
       IN /\ cursor' = r.pos
          /\ IF r.ok
             THEN /\ use_statements' = Append(use_statements, r.val)
                  /\ pc' = "use_statements"
             ELSE /\ use_statements' = use_statements
                  /\ pc' = "header"
    /\ UNCHANGED <<call, attributes, name, id_columns, columns, result, prev>>

\* TableDsl::parse: the table's attributes, its name, the optional id columns
TableDsl_parse_header ==
    /\ pc = "header"
    /\ LET ts == Tts(call.item)
           a == Attribute_parse_outer(ts, cursor)
           r == Idents_parse_terminated(ts, a.pos + 2)
       IN IF K(ts, a.pos) # "ident"
          THEN /\ Finish(Err("expected identifier"))
               /\ cursor' = a.pos
               /\ UNCHANGED <<attributes, name, id_columns>>
          ELSE IF K(ts, a.pos + 1) # "("
          THEN /\ attributes' = a.val
               /\ name' = ts[a.pos].v
               /\ id_columns' = NoIds
               /\ cursor' = a.pos + 1
               /\ pc' = "columns"
               /\ UNCHANGED result
          ELSE IF ~r.ok
          THEN /\ Finish(Err("expected identifier"))
               /\ cursor' = r.pos
               /\ UNCHANGED <<attributes, name, id_columns>>
          ELSE /\ attributes' = a.val
               /\ name' = ts[a.pos].v
               /\ id_columns' = [some |-> TRUE, idents |-> r.val, trailing |-> r.trailing]
               /\ cursor' = r.pos + 1
               /\ pc' = "columns"
               /\ UNCHANGED result
    /\ UNCHANGED <<call, use_statements, columns, prev>>

\* TableDsl::parse: the braces and the columns; parse2 then wants the end of input
TableDsl_parse_columns ==
    /\ pc = "columns"
    /\ LET ts == Tts(call.item)
           r == Columns_parse_terminated(ts, cursor + 1)
       IN IF K(ts, cursor) # "{"
          THEN /\ Finish(Err("expected curly braces"))
               /\ UNCHANGED <<cursor, columns>>
          ELSE IF ~r.ok
          THEN /\ Finish(Err("malformed column"))
               /\ cursor' = r.pos
               /\ UNCHANGED columns
          ELSE IF K(ts, r.pos + 1) # "eof"
          THEN /\ Finish(Err("unexpected token"))
               /\ cursor' = r.pos + 1
               /\ UNCHANGED columns
          ELSE /\ columns' = r.val
               /\ cursor' = r.pos + 1
               /\ pc' = "to_tokens"
               /\ UNCHANGED result
    /\ UNCHANGED <<call, use_statements, attributes, name, id_columns, prev>>

\* quote! { #table_dsl }
sort_columns_to_tokens ==
    /\ pc = "to_tokens"
    /\ \E o \in TableDsl_to_tokens([use_statements |-> use_statements,
                                    attributes |-> attributes,
                                    name |-> name,
                                    id_columns |-> id_columns,
                                    columns |-> columns]) :
          Finish(Ok(o))
    /\ UNCHANGED <<call, cursor, use_statements, attributes, name, id_columns,
                   columns, prev>>

\* sort_fields: the item is parsed as a DeriveInput
sort_fields ==
    /\ pc = "start"
    /\ call.macro = "sort_fields"
    /\ IF call.item.kind \in {"struct", "enum", "union"}
       THEN /\ pc' = "expand_sorted"
            /\ UNCHANGED result
       ELSE Finish(Err("expected one of: struct, enum, union"))
    /\ UNCHANGED <<call, cursor, use_statements, attributes, name, id_columns,
                   columns, prev>>

sort_fields_expand ==
    /\ pc = "expand_sorted"
    /\ \E r \in expand_sorted(call.attr, call.item) : Finish(r)
    /\ UNCHANGED <<call, cursor, use_statements, attributes, name, id_columns,
                   columns, prev>>

\* A declaration of pairwise distinct names written with its fields or columns
\* in another order is expanded in turn; prev keeps what the first one
\* expanded to.
Reordered(item) ==
    IF item.kind = "macro"
    THEN { MacroItem(item.path, [item.decl EXCEPT !.cols = cs]) :
             cs \in { c \in Arrangements(item.decl.cols) :
                        /\ c # item.decl.cols
                        /\ \A i, j \in 1..Len(c) : c[i].name = c[j].name => i = j } }
    ELSE { [item EXCEPT !.named = fs] :
             fs \in { c \in Arrangements(item.named) :
                        /\ c # item.named
                        /\ \A i, j \in 1..Len(c) : c[i].ident = c[j].ident => i = j } }

Reorder ==
    /\ pc = "done"
    /\ result.status = "ok"
    /\ prev = NoOut
    /\ \E i \in Reordered(call.item) : call' = [call EXCEPT !.item = i]
    /\ prev' = result.out
    /\ pc' = "start"
    /\ cursor' = 1
    /\ use_statements' = <<>>
    /\ attributes' = <<>>
    /\ name' = <<>>
    /\ id_columns' = NoIds
    /\ columns' = <<>>
    /\ result' = Pending

Next ==
    \/ sort_columns
    \/ TableDsl_parse_use
    \/ TableDsl_parse_header
    \/ TableDsl_parse_columns
    \/ sort_columns_to_tokens
    \/ sort_fields
    \/ sort_fields_expand
    \/ Reorder

Spec == Init /\ [][Next]_vars

(* ---------------------------------------------------------------------- *)
(* Vocabulary of the properties                                           *)
(* ---------------------------------------------------------------------- *)
Done == pc = "done"
Emitted == Done /\ result.status = "ok"
OnTable == call.macro = "sort_columns"
OnStruct == call.macro = "sort_fields"
NoAttr == call.attr = <<>>
Decl == call.item.decl

\* the items of the declaration as written, and their names
InItems == IF OnTable THEN Decl.cols ELSE call.item.named
InNames ==
    IF OnTable THEN [i \in 1..Len(Decl.cols) |-> Decl.cols[i].name]
    ELSE [i \in 1..Len(call.item.named) |-> call.item.named[i].ident]

\* the name of an emitted column: its first identifier
ColName(toks) ==
    toks[CHOOSE i \in 1..Len(toks) :
            /\ toks[i].k = "ident"
            /\ \A j \in 1..(i - 1) : toks[j].k # "ident"].v

OutItems == IF OnTable THEN result.out.cols ELSE result.out.fields
OutNames ==
    IF OnTable THEN [i \in 1..Len(result.out.cols) |-> ColName(result.out.cols[i])]
    ELSE [i \in 1..Len(result.out.fields) |-> result.out.fields[i].ident]

\* an item of the declaration in the form it has in the output
AsEmitted(x) == IF OnTable THEN Column_written(x) ELSE x

Distinct(s) == \A i, j \in 1..Len(s) : s[i] = s[j] => i = j
Count(s, x) == Cardinality({ i \in 1..Len(s) : s[i] = x })
Ascending(s) == \A i \in 1..(Len(s) - 1) : IdentLe(s[i], s[i + 1])
AttrCount(toks) == Cardinality({ i \in 1..Len(toks) : toks[i].k = "attr" })

RECURSIVE Sum(_)
Sum(s) == IF s = <<>> THEN 0 ELSE Head(s) + Sum(Tail(s))

\* the stable sort by name: ties keep their original position
StableOrder(keys) ==
    CHOOSE f \in Perms(Len(keys)) :
        \A i \in 1..(Len(keys) - 1) :
            \/ IdentLess(keys[f[i]], keys[f[i + 1]])
            \/ keys[f[i]] = keys[f[i + 1]] /\ f[i] < f[i + 1]

StableSorted(items, keys) ==
    LET f == StableOrder(keys) IN [i \in 1..Len(items) |-> items[f[i]]]

(* ---------------------------------------------------------------------- *)
(* Properties                                                             *)
(* ---------------------------------------------------------------------- *)

\* C1: when the names are pairwise distinct, a declaration written with its
\* fields or columns in another order, everything else unchanged, expands to
\* exactly what the first one expanded to.
C1_OrderIndependence ==
    (Done /\ prev # NoOut /\ Distinct(InNames))
        => (result.status = "ok" /\ result.out = prev)

C1_Witness ==
    /\ Emitted /\ OnTable /\ prev # NoOut
    /\ Len(InNames) = 3 /\ Distinct(InNames) /\ ~Ascending(InNames)
    /\ result.out = prev

\* C2: the emitted fields or columns are the written ones rearranged (same
\* length, every name as often as written) and their names ascend as text.
C2_SortedPermutation ==
    Emitted =>
        /\ Len(OutNames) = Len(InNames)
        /\ \A i \in 1..Len(InNames) : Count(OutNames, InNames[i]) = Count(InNames, InNames[i])
        /\ Ascending(OutNames)

C2_Witness ==
    /\ Emitted /\ OnTable
    /\ InNames = <<nm, id>>
    /\ OutNames = <<id, nm>>

\* C3: every emitted column has the attributes (content and order) and the
\* type, bare or wrapped, of a written column of that name, every emitted
\* field is one of the written fields, and the number of attributes over all
\* items is what was written.
C3_ItemMetadataPreserved ==
    Emitted =>
        /\ \A i \in 1..Len(OutItems) :
              \E j \in 1..Len(InItems) : OutItems[i] = AsEmitted(InItems[j])
        /\ \A j \in 1..Len(InItems) :
              \E i \in 1..Len(OutItems) : OutItems[i] = AsEmitted(InItems[j])
        /\ OnTable =>
              Sum([i \in 1..Len(OutItems) |-> AttrCount(OutItems[i])])
                = Sum([j \in 1..Len(InItems) |-> Len(InItems[j].attributes)])
        /\ OnStruct =>
              Sum([i \in 1..Len(OutItems) |-> Len(OutItems[i].attrs)])
                = Sum([j \in 1..Len(InItems) |-> Len(InItems[j].attrs)])

C3_Witness ==
    /\ Emitted /\ OnTable
    /\ Len(InItems) = 2
    /\ InItems[1].name = nm /\ InItems[1].ty.tag = "Wrapped"
    /\ InItems[1].attributes = <<Attr(1), Attr(3)>>
    /\ InItems[2].name = id /\ InItems[2].ty.tag = "Bare"
    /\ result.out.cols[2] = Column_written(InItems[1])

\* C4: an accepted table is emitted with its use statements as written, in
\* the written order, with its name, and with its primary-key list as
\* written: the same identifiers in the same order, never sorted, and in the
\* output exactly when it is in the input.
C4_UsesNameAndKeyPreserved ==
    (Emitted /\ OnTable /\ Decl.flaw = "none") =>
        /\ result.out.uses = Flatten([i \in 1..Len(Decl.uses) |-> Use_written(Decl.uses[i])])
        /\ result.out.name = Decl.name
        /\ result.out.ids = Ids_written(Decl.ids)
        /\ (result.out.ids = <<>>) <=> ~Decl.ids.some

C4_Witness ==
    /\ Emitted /\ OnTable /\ Decl.flaw = "none"
    /\ Len(Decl.uses) = 2
    /\ Decl.ids = SomeIds(<<nm, id>>)
    /\ InNames = <<nm, id>>
    /\ OutNames = <<id, nm>>
    /\ result.out.ids = <<P("("), Ident(nm), P(","), Ident(id), P(")")>>

\* C5: an accepted table is emitted with the attributes written before its
\* name, doc comments included: same content, count and order, whether or
\* not use statements precede them.
C5_TableAttributesPreserved ==
    (Emitted /\ OnTable /\ Decl.flaw = "none") => result.out.attrs = Decl.attrs

\* C6: an accepted struct is emitted with its attributes, visibility, name
\* and generics (parameters, bounds and where clause) as written.
C6_RecordStructurePreserved ==
    (Emitted /\ OnStruct) =>
        /\ result.out.attrs = call.item.attrs
        /\ result.out.vis = call.item.vis
        /\ result.out.ident = call.item.ident
        /\ result.out.generics = call.item.generics.params \o call.item.generics.where_clause

TupleError == "#[sort_fields] is not allowed on tuple structs, only structs with named fields"
UnitError == "#[sort_fields] is not allowed on unit structs, only structs with named fields"
EnumError == "#[sort_fields] is not allowed on enums, only structs"
UnionError == "#[sort_fields] is not allowed on unions, only structs"

Derivable == call.item.kind \in {"struct", "enum", "union"}
ItemIs(kind, fields) == call.item.kind = kind /\ call.item.fields = fields
Rejected(msg) == result.status = "err" /\ result.err = msg

\* C7 as claimed: every declaration with zero fields gets the unit-struct
\* error, and only a struct with a non-empty list of named fields is emitted.
C7_AsClaimed ==
    (Done /\ OnStruct /\ NoAttr /\ Derivable) =>
        /\ ItemIs("struct", "unnamed") => Rejected(TupleError)
        /\ (call.item.kind = "struct" /\ call.item.named = <<>>) => Rejected(UnitError)
        /\ call.item.kind = "enum" => Rejected(EnumError)
        /\ call.item.kind = "union" => Rejected(UnionError)
        /\ result.status = "ok" => (ItemIs("struct", "named") /\ call.item.named # <<>>)

\* C7, amended: a tuple struct (also an empty one), a unit struct, an enum
\* and a union each get their shape error and nothing is emitted; a
\* declaration is emitted exactly for a struct with a braced list of named
\* fields, the empty list included.
C7_RejectionCorrectness ==
    (Done /\ OnStruct /\ NoAttr /\ Derivable) =>
        /\ ItemIs("struct", "unnamed") => Rejected(TupleError)
        /\ ItemIs("struct", "unit") => Rejected(UnitError)
        /\ call.item.kind = "enum" => Rejected(EnumError)
        /\ call.item.kind = "union" => Rejected(UnionError)
        /\ result.status = "ok" <=> ItemIs("struct", "named")

C7_Witness ==
    /\ Done /\ OnStruct /\ NoAttr
    /\ ItemIs("struct", "unit")
    /\ Rejected(UnitError)
    /\ result.out = NoOut

WrongItemError == "#[sort_columns] only works on the diesel::table! macro"

\* C8: without an attribute argument, sort_columns on an item that is no
\* macro invocation, or on an invocation of a macro not named table, gives
\* the wrong-item error; a table is emitted only for an invocation of table
\* whose body has a name, braces, well-formed columns and nothing after them.
C8_MisappliedInvocation ==
    (Done /\ OnTable /\ NoAttr) =>
        /\ (call.item.kind # "macro" \/ call.item.path # table) => Rejected(WrongItemError)
        /\ result.status = "ok" =>
              /\ call.item.kind = "macro"
              /\ call.item.path = table
              /\ Decl.flaw \in {"none", "no_semicolon"}

C8_Witness ==
    /\ Done /\ OnTable /\ NoAttr
    /\ call.item.kind = "macro" /\ call.item.path = quote
    /\ Rejected(WrongItemError)

\* C9: a non-empty attribute argument gives the usage error and never a
\* declaration: in sort_columns whatever the item is, in sort_fields for
\* every struct, enum or union, before any shape error.
C9_UsageError ==
    (Done /\ ~NoAttr) =>
        /\ OnTable => Rejected("#[sort_columns] doesn't support any attributes")
        /\ (OnStruct /\ Derivable) => Rejected("#[sort_fields] doesn't support any attributes")

C9_Witness ==
    /\ Done /\ ~NoAttr /\ OnStruct
    /\ ItemIs("struct", "unnamed")
    /\ Rejected("#[sort_fields] doesn't support any attributes")

\* C10 as claimed: with repeated names the output is the stable sort by
\* name of the written sequence.
C10_AsClaimed ==
    (Emitted /\ ~Distinct(InNames)) =>
        OutItems = [i \in 1..Len(InItems) |->
                       AsEmitted(StableSorted(InItems, InNames)[i])]

\* C10, amended: with repeated names the names come out in the order of
\* the stable sort, and the items emitted under a name are the items
\* written under it, in an order the unstable sort leaves open.
C10_DuplicateNames ==
    (Emitted /\ ~Distinct(InNames)) =>
        /\ OutNames = StableSorted(InNames, InNames)
        /\ \A n \in ItemNames \cup {users} :
              { OutItems[i] : i \in { k \in 1..Len(OutItems) : OutNames[k] = n } }
                = { AsEmitted(InItems[j]) : j \in { k \in 1..Len(InItems) : InNames[k] = n } }

C10_Witness ==
    /\ Emitted /\ OnTable /\ ~Distinct(InNames)
    /\ Len(InItems) = 3
    /\ InNames = <<nm, id, id>>
    /\ InItems[2] # InItems[3]
    /\ result.out.cols[1] = Column_written(InItems[3])
    /\ result.out.cols[2] = Column_written(InItems[2])

====
